---------------------------- MODULE Spec2Model ----------------------------
(***************************************************************************)
(* Model of drivers/clk/sunxi/clk-a10-pll2.c: the Allwinner A10 audio PLL  *)
(* (PLL2).  One 32-bit control register is shared by four clock outputs    *)
(* (PLL2 = "1x", PLL2x2, PLL2x4, PLL2x8) and by a one-bit gate.            *)
(*                                                                         *)
(* The driver runs on 32-bit ARM (sun4i/sun5i), so u32, unsigned long,     *)
(* long and int are all 32 bits wide.  A 32-bit word is modelled as the    *)
(* pair <<hi, lo>> of its two 16-bit halves, value hi * 2^16 + lo, and     *)
(* all arithmetic is done on the halves, modulo 2^32, as the machine does  *)
(* it.  A negative long or int is its two's complement bit pattern.        *)
(***************************************************************************)
EXTENDS Integers, Sequences, FiniteSets

VARIABLES
    reg,       \* the register behind clk->reg and gate->reg
    res,       \* the last clk_ops call: its arguments, the register before, its results
    lastSet,   \* the most recent set_rate call
    srPc,      \* set_rate's position when run step by step: "idle" or "read"
    srVal,     \* set_rate's local val, as read by readl
    srRate,    \* set_rate's rate argument
    gPc,       \* the gate operation's position: "idle" or "read"
    gVal,      \* the gate operation's local copy of the register
    gEn,       \* the gate operation in progress: 1 enable, 0 disable
    lastGate,  \* what the most recent completed gate operation set (-1: none yet)
    lastN      \* the multiplier the most recent successful set_rate committed (-1: none yet)

vars == <<reg, res, lastSet, srPc, srVal, srRate, gPc, gVal, gEn, lastGate, lastN>>

seqVars == <<res, lastSet>>

concVars == <<srPc, srVal, srRate, gPc, gVal, gEn, lastGate, lastN>>

---------------------------------------------------------------------------
(* Register layout, lines 22-28 of the source.                             *)

SUN4I_PLL2_ENABLE == 31

SUN4I_PLL2_POST_DIV == 26

SUN4I_PLL2_POST_DIV_MASK == 15

SUN4I_PLL2_N == 8

SUN4I_PLL2_N_MASK == 127

SUN4I_PLL2_PRE_DIV == 0

SUN4I_PLL2_PRE_DIV_MASK == 31

EINVAL == 22

---------------------------------------------------------------------------
(* 32-bit words as two 16-bit halves.                                      *)

Limb == 2^16

\* The word holding the number n, 0 <= n < 2^31.
U(n) == <<n \div Limb, n % Limb>>

Pow2(k) == 2^k

RECURSIVE BitAnd(_, _)
BitAnd(a, b) ==
    IF a = 0 \/ b = 0 THEN 0
    ELSE (a % 2) * (b % 2) + 2 * BitAnd(a \div 2, b \div 2)

RECURSIVE BitOr(_, _)
BitOr(a, b) ==
    IF a = 0 THEN b
    ELSE IF b = 0 THEN a
    ELSE (IF a % 2 = 1 \/ b % 2 = 1 THEN 1 ELSE 0) + 2 * BitOr(a \div 2, b \div 2)

\* a & b
AndW(a, b) == <<BitAnd(a[1], b[1]), BitAnd(a[2], b[2])>>

\* a | b
OrW(a, b) == <<BitOr(a[1], b[1]), BitOr(a[2], b[2])>>

\* ~a
NotW(a) == <<Limb - 1 - a[1], Limb - 1 - a[2]>>

\* a << k, 0 <= k < 32
ShlW(a, k) ==
    IF k < 16
    THEN <<(a[1] * Pow2(k) + (a[2] * Pow2(k)) \div Limb) % Limb, (a[2] * Pow2(k)) % Limb>>
    ELSE <<(a[2] * Pow2(k - 16)) % Limb, 0>>

\* a >> k, 0 <= k < 32 (a is unsigned)
ShrW(a, k) ==
    IF k < 16
    THEN <<a[1] \div Pow2(k), (a[2] \div Pow2(k)) + (a[1] % Pow2(k)) * Pow2(16 - k)>>
    ELSE <<0, a[1] \div Pow2(k - 16)>>

\* a * k modulo 2^32, 0 <= k < 2^15
MulW(a, k) == <<(a[1] * k + (a[2] * k) \div Limb) % Limb, (a[2] * k) % Limb>>

\* a / d truncating, 1 <= d < 2^15 (unsigned division)
DivW(a, d) == <<a[1] \div d, ((a[1] % d) * Limb + a[2]) \div d>>

\* a < b, unsigned
LtW(a, b) == a[1] < b[1] \/ (a[1] = b[1] /\ a[2] < b[2])

\* -n as a 32-bit two's complement pattern, 0 < n < 2^16
NegW(n) == <<Limb - 1, Limb - n>>

\* An int holding a masked field (0..127), as the number it is.
IntOf(a) == a[2]

---------------------------------------------------------------------------
(* recalc_rate                                                             *)

sun4i_pll2_1x_recalc_rate_nozero(val, parent_rate) ==
    LET n == IntOf(AndW(ShrW(val, SUN4I_PLL2_N), U(SUN4I_PLL2_N_MASK)))
        prediv0 == IntOf(AndW(ShrW(val, SUN4I_PLL2_PRE_DIV), U(SUN4I_PLL2_PRE_DIV_MASK)))
        postdiv0 == IntOf(AndW(ShrW(val, SUN4I_PLL2_POST_DIV), U(SUN4I_PLL2_POST_DIV_MASK)))
        prediv == IF prediv0 = 0 THEN 1 ELSE prediv0
        postdiv == IF postdiv0 = 0 THEN 1 ELSE postdiv0
    IN  DivW(DivW(MulW(parent_rate, n), prediv), postdiv)

\* Lines 42-62; val is what readl(clk->reg) returns.
sun4i_pll2_1x_recalc_rate(val, parent_rate) ==
    LET n0 == IntOf(AndW(ShrW(val, SUN4I_PLL2_N), U(SUN4I_PLL2_N_MASK)))
        prediv0 == IntOf(AndW(ShrW(val, SUN4I_PLL2_PRE_DIV), U(SUN4I_PLL2_PRE_DIV_MASK)))
        postdiv0 == IntOf(AndW(ShrW(val, SUN4I_PLL2_POST_DIV), U(SUN4I_PLL2_POST_DIV_MASK)))
        n == IF n0 = 0 THEN 1 ELSE n0
        prediv == IF prediv0 = 0 THEN 1 ELSE prediv0
        postdiv == IF postdiv0 = 0 THEN 1 ELSE postdiv0
    IN  DivW(DivW(MulW(parent_rate, n), prediv), postdiv)

\* Lines 64-81.
sun4i_pll2_8x_recalc_rate(val, parent_rate) ==
    LET n0 == IntOf(AndW(ShrW(val, SUN4I_PLL2_N), U(SUN4I_PLL2_N_MASK)))
        prediv0 == IntOf(AndW(ShrW(val, SUN4I_PLL2_PRE_DIV), U(SUN4I_PLL2_PRE_DIV_MASK)))
        n == IF n0 = 0 THEN 1 ELSE n0
        prediv == IF prediv0 = 0 THEN 1 ELSE prediv0
    IN  DivW(MulW(MulW(parent_rate, 2), n), prediv)

sun4i_pll2_4x_recalc_rate_quarter(val, parent_rate) ==
    sun4i_pll2_8x_recalc_rate(val, DivW(parent_rate, 4))

\* Lines 83-87.
sun4i_pll2_4x_recalc_rate(val, parent_rate) ==
    sun4i_pll2_8x_recalc_rate(val, DivW(parent_rate, 2))

\* Lines 89-93.
sun4i_pll2_2x_recalc_rate(val, parent_rate) ==
    sun4i_pll2_8x_recalc_rate(val, DivW(parent_rate, 4))

---------------------------------------------------------------------------
(* round_rate: the long returned, and *parent_rate afterwards (round_1x    *)
(* leaves *parent_rate alone).                                             *)

sun4i_pll2_1x_round_rate_inclusive(rate) ==
    IF ~LtW(U(22579200), rate) THEN NegW(EINVAL)
    ELSE IF ~LtW(rate, U(22579200)) /\ LtW(rate, U(24576000)) THEN U(22579200)
    ELSE U(24576000)

sun4i_pll2_1x_round_rate_24mhz(rate) ==
    IF LtW(rate, U(22579200)) THEN NegW(EINVAL)
    ELSE IF ~LtW(rate, U(22579200)) /\ LtW(rate, U(24576000)) THEN U(22579200)
    ELSE U(24000000)

\* Lines 95-110.
sun4i_pll2_1x_round_rate(rate) ==
    IF LtW(rate, U(22579200)) THEN NegW(EINVAL)
    ELSE IF ~LtW(rate, U(22579200)) /\ LtW(rate, U(24576000)) THEN U(22579200)
    ELSE U(24576000)

\* Lines 112-123.
sun4i_pll2_8x_round_rate(rate) ==
    [ret |-> rate, parent_rate |-> DivW(MulW(rate, 4), 2)]

\* Lines 125-130.
sun4i_pll2_4x_round_rate(rate) == sun4i_pll2_8x_round_rate(MulW(rate, 2))

\* Lines 132-137.
sun4i_pll2_2x_round_rate(rate) == sun4i_pll2_8x_round_rate(MulW(rate, 4))

---------------------------------------------------------------------------
(* set_rate: from the value readl returned, the int returned, whether      *)
(* writel is reached and the value it writes.                              *)

SetRateVal(val) ==
    LET v1 == AndW(val, NotW(ShlW(U(SUN4I_PLL2_N_MASK), SUN4I_PLL2_N)))
        v2 == AndW(v1, NotW(ShlW(U(SUN4I_PLL2_PRE_DIV_MASK), SUN4I_PLL2_PRE_DIV)))
        v3 == AndW(v2, NotW(ShlW(U(SUN4I_PLL2_POST_DIV_MASK), SUN4I_PLL2_POST_DIV)))
    IN  OrW(v3, OrW(ShlW(U(21), SUN4I_PLL2_PRE_DIV), ShlW(U(4), SUN4I_PLL2_POST_DIV)))

\* A set_rate that stores val before it has matched the rate.
sun4i_pll2_set_rate_early_write(val, rate, parent_rate) ==
    IF rate = U(22579200)
    THEN [ret |-> U(0), write |-> TRUE, val |-> OrW(SetRateVal(val), ShlW(U(79), SUN4I_PLL2_N))]
    ELSE IF rate = U(24576000)
    THEN [ret |-> U(0), write |-> TRUE, val |-> OrW(SetRateVal(val), ShlW(U(86), SUN4I_PLL2_N))]
    ELSE [ret |-> NegW(EINVAL), write |-> TRUE, val |-> SetRateVal(val)]

\* A set_rate whose post-divider mask is one bit too wide.
sun4i_pll2_set_rate_wide_mask(val, rate, parent_rate) ==
    LET v == AndW(SetRateVal(val), NotW(ShlW(U(1), 30)))
    IN  IF rate = U(22579200)
        THEN [ret |-> U(0), write |-> TRUE, val |-> OrW(v, ShlW(U(79), SUN4I_PLL2_N))]
        ELSE IF rate = U(24576000)
        THEN [ret |-> U(0), write |-> TRUE, val |-> OrW(v, ShlW(U(86), SUN4I_PLL2_N))]
        ELSE [ret |-> NegW(EINVAL), write |-> FALSE, val |-> v]

\* A set_rate that commits the 22.5792 MHz multiplier for both rates.
sun4i_pll2_set_rate_same_n(val, rate, parent_rate) ==
    IF rate = U(22579200)
    THEN [ret |-> U(0), write |-> TRUE, val |-> OrW(SetRateVal(val), ShlW(U(79), SUN4I_PLL2_N))]
    ELSE IF rate = U(24576000)
    THEN [ret |-> U(0), write |-> TRUE, val |-> OrW(SetRateVal(val), ShlW(U(79), SUN4I_PLL2_N))]
    ELSE [ret |-> NegW(EINVAL), write |-> FALSE, val |-> SetRateVal(val)]

\* Lines 139-161.
sun4i_pll2_set_rate(val, rate, parent_rate) ==
    IF rate = U(22579200)
    THEN [ret |-> U(0), write |-> TRUE, val |-> OrW(SetRateVal(val), ShlW(U(79), SUN4I_PLL2_N))]
    ELSE IF rate = U(24576000)
    THEN [ret |-> U(0), write |-> TRUE, val |-> OrW(SetRateVal(val), ShlW(U(86), SUN4I_PLL2_N))]
    ELSE [ret |-> NegW(EINVAL), write |-> FALSE, val |-> SetRateVal(val)]

---------------------------------------------------------------------------
(* The registers and rates the model starts from and calls with.           *)

\* A register from its fields; rsv = 1 sets every reserved bit (5-7, 15-25, 30).
MkReg(en, rsv, s, n, p) ==
    <<en * Pow2(15) + rsv * Pow2(14) + s * Pow2(10) + rsv * (Pow2(10) - 1),
      rsv * Pow2(15) + n * Pow2(8) + rsv * (Pow2(8) - Pow2(5)) + p>>

\* The <<S, N, P>> fields the registers start with: all zero, the two supported
\* settings' neighbours, the largest values, and each field zero in turn.
Fields == {<<0, 0, 0>>, <<4, 79, 21>>, <<15, 127, 31>>, <<0, 86, 21>>, <<4, 0, 31>>, <<15, 79, 0>>}

Regs == {MkReg(en, rsv, f[1], f[2], f[3]) : en \in {0, 1}, rsv \in {0, 1}, f \in Fields}

\* 2^30, where rate * 4 wraps to 0, and 2^32 - 1
BigRates == {<<Pow2(14), 0>>, <<Limb - 1, Limb - 1>>}

Rates ==
    {U(0), U(3), U(6), U(22579199), U(22579200), U(22579201),
     U(24575999), U(24576000), U(24576001)} \cup BigRates

\* The parent rates recalc_rate is called with.
Parents == {U(0), U(3), U(6), U(22579200), U(24576000)} \cup BigRates

SetRates == {U(0), U(22579200), U(24576000), U(24576001)}

SetParents == {U(0), U(24576000)}

Zero == U(0)

NoCall == [op |-> "none", rate |-> Zero, parent |-> Zero, before |-> Zero,
           ret |-> Zero, pout |-> Zero]

NoSet == [valid |-> FALSE, rate |-> Zero, parent |-> Zero, before |-> Zero, ret |-> Zero]

---------------------------------------------------------------------------
(* The clk_ops, each called as a whole (the clock framework calls them     *)
(* under its prepare lock).                                                *)

Init ==
    /\ reg \in Regs
    /\ res = NoCall
    /\ lastSet = NoSet
    /\ srPc = "idle" /\ srVal = Zero /\ srRate = Zero
    /\ gPc = "idle" /\ gVal = Zero /\ gEn = 0
    /\ lastGate = -1
    /\ lastN = -1

SetRate ==
    \E rate \in SetRates, parent_rate \in SetParents :
        LET r == sun4i_pll2_set_rate(reg, rate, parent_rate)
        IN  /\ reg' = IF r.write THEN r.val ELSE reg
            /\ res' = [op |-> "set_rate", rate |-> rate, parent |-> parent_rate,
                       before |-> reg, ret |-> r.ret, pout |-> Zero]
            /\ lastSet' = [valid |-> TRUE, rate |-> rate, parent |-> parent_rate,
                           before |-> reg, ret |-> r.ret]
            /\ UNCHANGED concVars

Recalc1x ==
    \E parent_rate \in Parents :
        /\ res' = [op |-> "recalc_1x", rate |-> Zero, parent |-> parent_rate, before |-> reg,
                   ret |-> sun4i_pll2_1x_recalc_rate(reg, parent_rate), pout |-> Zero]
        /\ UNCHANGED <<reg, lastSet, concVars>>

Recalc8x ==
    \E parent_rate \in Parents :
        /\ res' = [op |-> "recalc_8x", rate |-> Zero, parent |-> parent_rate, before |-> reg,
                   ret |-> sun4i_pll2_8x_recalc_rate(reg, parent_rate), pout |-> Zero]
        /\ UNCHANGED <<reg, lastSet, concVars>>

Recalc4x ==
    \E parent_rate \in Parents :
        /\ res' = [op |-> "recalc_4x", rate |-> Zero, parent |-> parent_rate, before |-> reg,
                   ret |-> sun4i_pll2_4x_recalc_rate(reg, parent_rate), pout |-> Zero]
        /\ UNCHANGED <<reg, lastSet, concVars>>

Recalc2x ==
    \E parent_rate \in Parents :
        /\ res' = [op |-> "recalc_2x", rate |-> Zero, parent |-> parent_rate, before |-> reg,
                   ret |-> sun4i_pll2_2x_recalc_rate(reg, parent_rate), pout |-> Zero]
        /\ UNCHANGED <<reg, lastSet, concVars>>

\* round_1x never stores to *parent_rate: pout is the value passed in.
Round1x ==
    \E rate \in Rates :
        /\ res' = [op |-> "round_1x", rate |-> rate, parent |-> Zero, before |-> reg,
                   ret |-> sun4i_pll2_1x_round_rate(rate), pout |-> Zero]
        /\ UNCHANGED <<reg, lastSet, concVars>>

Round8x ==
    \E rate \in Rates :
        LET r == sun4i_pll2_8x_round_rate(rate)
        IN  /\ res' = [op |-> "round_8x", rate |-> rate, parent |-> Zero, before |-> reg,
                       ret |-> r.ret, pout |-> r.parent_rate]
            /\ UNCHANGED <<reg, lastSet, concVars>>

Round4x ==
    \E rate \in Rates :
        LET r == sun4i_pll2_4x_round_rate(rate)
        IN  /\ res' = [op |-> "round_4x", rate |-> rate, parent |-> Zero, before |-> reg,
                       ret |-> r.ret, pout |-> r.parent_rate]
            /\ UNCHANGED <<reg, lastSet, concVars>>

Round2x ==
    \E rate \in Rates :
        LET r == sun4i_pll2_2x_round_rate(rate)
        IN  /\ res' = [op |-> "round_2x", rate |-> rate, parent |-> Zero, before |-> reg,
                       ret |-> r.ret, pout |-> r.parent_rate]
            /\ UNCHANGED <<reg, lastSet, concVars>>

Next ==
    \/ SetRate
    \/ Recalc1x
    \/ Recalc8x
    \/ Recalc4x
    \/ Recalc2x
    \/ Round1x
    \/ Round8x
    \/ Round4x
    \/ Round2x

Spec == Init /\ [][Next]_vars

---------------------------------------------------------------------------
(* set_rate and the gate on the same register, one register access per     *)
(* step.  sun4i_pll2_setup gives the gate the same reg, bit 31, and no     *)
(* lock (gate->lock stays NULL); set_rate takes none either.  The gate is  *)
(* the generic clk_gate: read the register, set or clear the bit, write.   *)

ConcRates == {U(22579200), U(24576000), U(3)}

\* Line 143: u32 val = readl(clk->reg)
SetRateRead ==
    /\ srPc = "idle"
    /\ \E rate \in ConcRates :
        /\ srVal' = reg
        /\ srRate' = rate
    /\ srPc' = "read"
    /\ UNCHANGED <<reg, gPc, gVal, gEn, lastGate, lastN, seqVars>>

\* Lines 145-160: the masking, the match, writel and the return
SetRateFinish ==
    /\ srPc = "read"
    /\ LET r == sun4i_pll2_set_rate(srVal, srRate, Zero)
       IN  /\ reg' = IF r.write THEN r.val ELSE reg
           /\ lastN' = IF r.write
                       THEN IntOf(AndW(ShrW(r.val, SUN4I_PLL2_N), U(SUN4I_PLL2_N_MASK)))
                       ELSE lastN
    /\ srPc' = "idle"
    /\ UNCHANGED <<srVal, srRate, gPc, gVal, gEn, lastGate, seqVars>>

\* clk_gate enable (en = 1) or disable (en = 0): the register read
GateRead ==
    /\ gPc = "idle"
    /\ \E en \in {0, 1} :
        /\ gVal' = reg
        /\ gEn' = en
    /\ gPc' = "read"
    /\ UNCHANGED <<reg, srPc, srVal, srRate, lastGate, lastN, seqVars>>

\* the bit set or cleared in the value read, and the write
GateWrite ==
    /\ gPc = "read"
    /\ reg' = IF gEn = 1
              THEN OrW(gVal, ShlW(U(1), SUN4I_PLL2_ENABLE))
              ELSE AndW(gVal, NotW(ShlW(U(1), SUN4I_PLL2_ENABLE)))
    /\ lastGate' = gEn
    /\ gPc' = "idle"
    /\ UNCHANGED <<gVal, gEn, srPc, srVal, srRate, lastN, seqVars>>

NextConc ==
    \/ SetRateRead
    \/ SetRateFinish
    \/ GateRead
    \/ GateWrite

SpecConc == Init /\ [][NextConc]_vars

---------------------------------------------------------------------------
(* The register's fields read off the halves by plain arithmetic, for the  *)
(* properties below.                                                       *)

FieldP(r) == r[2] % 32

FieldN(r) == (r[2] \div 256) % 128

FieldS(r) == (r[1] \div 1024) % 16

EnableBit(r) == r[1] \div 32768

\* Every bit outside the three fields: bit 31 and the reserved bits.
Rest(r) == <<r[1] - FieldS(r) * 1024, r[2] - FieldN(r) * 256 - FieldP(r)>>

\* Zero means one.
Eff(f) == IF f = 0 THEN 1 ELSE f

\* parent_rate * 2 * N fits in 32 bits.
NoWrap(r, parent_rate) ==
    LET k == 2 * Eff(FieldN(r))
    IN  parent_rate[1] * k + (parent_rate[2] * k) \div Limb < Limb

\* a + k modulo 2^32, 0 <= k < 2^15
AddW(a, k) == <<(a[1] + (a[2] + k) \div Limb) % Limb, (a[2] + k) % Limb>>

\* got is want less what integer truncation may lose.
Close(got, want) == \E k \in 0..4 : AddW(got, k) = want

\* P = 21, S = 4, N one of 79 and 86.
Supported(r) == FieldP(r) = 21 /\ FieldS(r) = 4 /\ FieldN(r) \in {79, 86}

---------------------------------------------------------------------------
(* C1: set_rate with a rate other than 22,579,200 and 24,576,000 returns   *)
(* -EINVAL and the register afterwards equals the register before.         *)
C1_FailedSetRateLeavesRegister ==
    (res.op = "set_rate" /\ res.rate # U(22579200) /\ res.rate # U(24576000))
        => (res.ret = NegW(EINVAL) /\ reg = res.before)

C1_Witness ==
    /\ res.op = "set_rate"
    /\ res.rate = U(24576001)
    /\ FieldN(res.before) = 127 /\ FieldP(res.before) = 31 /\ FieldS(res.before) = 15
    /\ res.ret = NegW(EINVAL)
    /\ reg = res.before

(* C2: a successful set_rate leaves P = 21, S = 4, N = 79 for 22,579,200   *)
(* or 86 for 24,576,000, and bit 31 and every reserved bit as they were.   *)
C2_SetRateFrame ==
    (res.op = "set_rate" /\ res.ret = Zero)
        => /\ res.rate \in {U(22579200), U(24576000)}
           /\ FieldP(reg) = 21
           /\ FieldS(reg) = 4
           /\ FieldN(reg) = (IF res.rate = U(22579200) THEN 79 ELSE 86)
           /\ Rest(reg) = Rest(res.before)

C2_Witness ==
    /\ res.op = "set_rate"
    /\ res.ret = Zero
    /\ res.rate = U(24576000)
    /\ res.before = MkReg(1, 1, 15, 127, 31)
    /\ reg = MkReg(1, 1, 4, 86, 21)

(* C3, as amended: from register 0, set_rate(24,576,000, 24,576,000)       *)
(* succeeds and a following recalc_rate(24,576,000) of PLL2 returns        *)
(* 25,161,142 = ((24,576,000 * 86) / 21) / 4, truncating.                  *)
C3_EndToEnd ==
    (/\ lastSet.valid
     /\ lastSet.before = Zero
     /\ lastSet.rate = U(24576000)
     /\ lastSet.parent = U(24576000)
     /\ res.op = "recalc_1x"
     /\ res.parent = U(24576000))
        => (lastSet.ret = Zero /\ Supported(res.before) /\ FieldN(res.before) = 86
            /\ res.ret = U(25161142))

C3_Witness ==
    /\ lastSet.valid
    /\ lastSet.before = Zero
    /\ lastSet.rate = U(24576000)
    /\ lastSet.parent = U(24576000)
    /\ lastSet.ret = Zero
    /\ res.op = "recalc_1x"
    /\ res.parent = U(24576000)
    /\ res.ret = U(25161142)

(* C3 as claimed: the recalc_rate above returns 24,576,000.                *)
C3_Original ==
    (/\ lastSet.valid
     /\ lastSet.before = Zero
     /\ lastSet.rate = U(24576000)
     /\ lastSet.parent = U(24576000)
     /\ res.op = "recalc_1x"
     /\ res.parent = U(24576000))
        => (lastSet.ret = Zero /\ res.ret = U(24576000))

(* C4: PLL2's round_rate gives -EINVAL below 22,579,200, 22,579,200 from   *)
(* there to 24,575,999 and 24,576,000 from 24,576,000 up, whatever the     *)
(* register holds.                                                         *)
C4_RoundRateSnaps ==
    res.op = "round_1x"
        => /\ LtW(res.rate, U(22579200)) => res.ret = NegW(EINVAL)
           /\ (~LtW(res.rate, U(22579200)) /\ LtW(res.rate, U(24576000)))
                => res.ret = U(22579200)
           /\ ~LtW(res.rate, U(24576000)) => res.ret = U(24576000)

C4_Witness ==
    /\ res.op = "round_1x"
    /\ res.rate = <<Limb - 1, Limb - 1>>
    /\ res.ret = U(24576000)
    /\ FieldN(res.before) = 127

(* C5 as claimed: with set_rate and gate operations interleaved, bit 31 is *)
(* what the last completed gate operation set and N, P, S are what the     *)
(* last completed successful set_rate committed.                           *)
C5_GateAndRateIndependent ==
    /\ lastGate # -1 => EnableBit(reg) = lastGate
    /\ lastN # -1 => (FieldN(reg) = lastN /\ FieldP(reg) = 21 /\ FieldS(reg) = 4)

(* C6 as claimed: PLL2x8's round_rate returns the rate asked for and       *)
(* stores 2 * rate (modulo 2^32) as the parent rate, for every rate.       *)
C6_Round8xParentIsDouble ==
    res.op = "round_8x" => (res.ret = res.rate /\ res.pout = MulW(res.rate, 2))

(* C7, as amended: recalc_rate of PLL2x4 is PLL2x8's at parent_rate / 2    *)
(* and that of PLL2x2 is PLL2x8's at parent_rate / 4; they are half and a  *)
(* quarter of PLL2x8's rate at parent_rate when parent_rate is a multiple  *)
(* of 2 (of 4) and parent_rate * 2 * N does not wrap.                      *)
C7_DerivedRates ==
    /\ res.op = "recalc_4x"
        => /\ res.ret = sun4i_pll2_8x_recalc_rate(res.before, DivW(res.parent, 2))
           /\ (res.parent[2] % 2 = 0 /\ NoWrap(res.before, res.parent))
                => res.ret = DivW(sun4i_pll2_8x_recalc_rate(res.before, res.parent), 2)
    /\ res.op = "recalc_2x"
        => /\ res.ret = sun4i_pll2_8x_recalc_rate(res.before, DivW(res.parent, 4))
           /\ (res.parent[2] % 4 = 0 /\ NoWrap(res.before, res.parent))
                => res.ret = DivW(sun4i_pll2_8x_recalc_rate(res.before, res.parent), 4)

C7_Witness ==
    /\ res.op = "recalc_4x"
    /\ res.parent = U(24576000)
    /\ FieldN(res.before) = 79 /\ FieldP(res.before) = 21
    /\ NoWrap(res.before, res.parent)
    /\ res.ret = U(92452571)
    /\ sun4i_pll2_8x_recalc_rate(res.before, res.parent) = U(184905142)

(* C7 as claimed: for every register and parent rate, PLL2x4's rate is     *)
(* half and PLL2x2's a quarter of PLL2x8's at the same parent rate.        *)
C7_Original ==
    /\ res.op = "recalc_4x"
        => res.ret = DivW(sun4i_pll2_8x_recalc_rate(res.before, res.parent), 2)
    /\ res.op = "recalc_2x"
        => res.ret = DivW(sun4i_pll2_8x_recalc_rate(res.before, res.parent), 4)

(* C8: recalc_rate of PLL2 returns ((p * N) / P) / S and that of PLL2x8    *)
(* (p * 2 * N) / P, in 32-bit unsigned arithmetic, with a stored 0 read as *)
(* 1, and the register is left as it was.                                  *)
C8_ZeroMeansOne ==
    /\ res.op = "recalc_1x"
        => /\ res.ret = DivW(DivW(MulW(res.parent, Eff(FieldN(res.before))),
                                  Eff(FieldP(res.before))), Eff(FieldS(res.before)))
           /\ reg = res.before
    /\ res.op = "recalc_8x"
        => /\ res.ret = DivW(MulW(res.parent, 2 * Eff(FieldN(res.before))),
                             Eff(FieldP(res.before)))
           /\ reg = res.before

C8_Witness ==
    /\ res.op = "recalc_1x"
    /\ FieldN(res.before) = 0 /\ FieldP(res.before) = 0 /\ FieldS(res.before) = 0
    /\ res.parent = U(24576000)
    /\ res.ret = U(24576000)
    /\ reg = res.before

(* C9 as claimed: in a supported configuration, the parent rate that       *)
(* round_rate of PLL2x8 (PLL2x4, PLL2x2) stores, given to the same         *)
(* output's recalc_rate, returns the rate asked for, up to truncation.     *)
C9_RoundRecalcRoundTrip ==
    /\ (res.op = "round_8x" /\ Supported(reg))
        => Close(sun4i_pll2_8x_recalc_rate(reg, res.pout), res.rate)
    /\ (res.op = "round_4x" /\ Supported(reg))
        => Close(sun4i_pll2_4x_recalc_rate(reg, res.pout), res.rate)
    /\ (res.op = "round_2x" /\ Supported(reg))
        => Close(sun4i_pll2_2x_recalc_rate(reg, res.pout), res.rate)

(* C10: a rate PLL2's round_rate returns is accepted by set_rate whatever  *)
(* the parent rate and the register, and round_rate maps it to itself;     *)
(* every rate set_rate accepts is a fixed point of round_rate.             *)
C10_RoundThenSet ==
    /\ (res.op = "round_1x" /\ res.ret # NegW(EINVAL))
        => /\ \A p \in SetParents \cup Parents :
                /\ sun4i_pll2_set_rate(reg, res.ret, p).ret = Zero
                /\ sun4i_pll2_set_rate(reg, res.ret, p).write
           /\ sun4i_pll2_1x_round_rate(res.ret) = res.ret
    /\ (res.op = "set_rate" /\ res.ret = Zero)
        => sun4i_pll2_1x_round_rate(res.rate) = res.rate

C10_Witness ==
    /\ res.op = "round_1x"
    /\ res.rate = U(24576001)
    /\ res.ret = U(24576000)
    /\ sun4i_pll2_set_rate(reg, res.ret, Zero).ret = Zero

=============================================================================
